---- MODULE Spec2Model ----
(***************************************************************************)
(* The persistent WebSocket connection of hypersdk (src/hypercore/ws.rs):  *)
(* the background task `connection` (the supervisor), the `Connection`     *)
(* handle the consumer holds, the two unbounded channels between them and  *)
(* the transport the supervisor talks to.                                  *)
(***************************************************************************)
EXTENDS Integers, Sequences, FiniteSets, TLC

(***************************************************************************)
(* Bounds of the model.                                                    *)
(***************************************************************************)
\* subscribe/unsubscribe calls the consumer makes in one run
MaxCmds == 2
\* successful connects in one run
MaxSessions == 2
\* consecutive failed connect attempts explored by Spec
MaxAttempts == 1
\* heartbeat ticks handled without a Pong in between
MaxTicks == 2
\* the same for SpecRegistry, where calls meet every kind of step of the task
RgCmds == 1
RgFrames == 1
RgSessions == 2
RgAttempts == 1
RgTicks == 2
\* the same for SpecEvents, where the consumer polls the event stream
EvFrames == 3
EvSessions == 2
EvAttempts == 1
EvTicks == 2
\* the same for SpecHeartbeat, where the consumer does nothing
HbFrames == 2
HbSessions == 2
HbAttempts == 1
HbTicks == 3
\* consecutive failed connect attempts and successful connects explored by
\* SpecBackoff
BoAttempts == 66
BoSessions == 2
\* the same for SpecCalls, where the consumer calls in every state of the
\* task, the state after a panic included
ClCmds == 1
ClSessions == 2
ClAttempts == 57
\* the same for SpecOrder, where two calls meet every kind of step
OrCmds == 2
OrFrames == 1
OrSessions == 2
OrTicks == 1
\* for SpecLead: the largest threshold of a multi-sig wallet, the Signature
\* messages a run receives over gossip, the neighbours that come up
LdThreshold == 2
LdGossip == 2
LdNeighbors == 1
\* the same for LiveSpec; from LvAttempts failed attempts on, the counter of
\* the model stays where it is
LvCmds == 1
LvSessions == 2
LvAttempts == 2
LvTicks == 2

(***************************************************************************)
(* Constants of `connection`.                                              *)
(***************************************************************************)
MAX_MISSED_PONGS == 2
MAX_RECONNECT_DELAY_MS == 5000
INITIAL_RECONNECT_DELAY_MS == 500

\* The values of `Subscription` the consumer uses.
Subscription == {"Trades_BTC", "L2Book_BTC"}

\* What the transport can deliver to Stream::poll_next: a frame that decodes
\* to Incoming::Pong, to Incoming::Ping, to a data message, a frame whose
\* discriminator is none of those `Incoming` knows, or a frame serde_json
\* cannot decode.
FrameKinds == {"pong", "ping", "data", "unknown", "malformed"}

VARIABLES
    pc,                 \* where the task `connection` is
    subs,               \* HashSet<Subscription> of `connection`
    reconnect_attempts, \* u32 of `connection`
    delay_ms,           \* the delay computed by the last failed attempt
    missed_pongs,       \* u8 of the current session
    to_replay,          \* what `subs.iter()` has not yielded yet
    srx,                \* the command channel (Connection.tx -> srx)
    rx,                 \* the event channel (tx -> Connection.rx)
    handle,             \* "alive" until the Connection is dropped
    seen,               \* the events the consumer has polled, in order
    wire,               \* the Subscribe and Unsubscribe directives attempted
                        \* on the current session, in order
    next_msg,           \* the number the transport gives its next data frame
    calls,              \* the subscribe/unsubscribe calls made so far, in order
    calls_in_session,   \* a call was made since the last connect succeeded
    fails,              \* failed attempts since start or last success
    prev_fails,         \* the value of `fails` when the last connect succeeded
    ticks_no_pong,      \* ticks handled on this session since the last Pong
    sessions,           \* successful connects so far
    frames,             \* inbound frames delivered so far
    send_failed,        \* a directive send outside the replay has failed on
                        \* the current session
    last_frame,         \* the kind of the latest inbound frame, "none"
                        \* before the first
    wei,                \* a call of to_wei or from_wei (hyperevm): its
                        \* arguments, where it is, its result
    hb_sent,            \* the Ping and Pong directives the latest tick or
                        \* inbound frame of the current session made the
                        \* task send
    streams,            \* the sessions whose `stream` has not been dropped
    ended_by,           \* what ended the latest session that ended: "stale"
                        \* (the heartbeat), "closed" (stream.next() gave
                        \* None) or "send" (a failed send); "none" before
    lead                \* a run of send_asset (hypecli multisig): its
                        \* inputs, where it is, the signatures it holds,
                        \* what it has submitted

vars == <<pc, subs, reconnect_attempts, delay_ms, missed_pongs, to_replay,
          srx, rx, handle, seen, wire, next_msg, calls, calls_in_session,
          fails, prev_fails, ticks_no_pong, sessions, frames, send_failed,
          last_frame, wei, lead, hb_sent, streams, ended_by>>

(***************************************************************************)
(* u64 arithmetic of the backoff delay, on four 16-bit limbs (least        *)
(* significant first), so that the width of the code's integers is kept.   *)
(***************************************************************************)
LimbBase == 2 ^ 16

U64Bits == 4 * 16

\* 1u64 << n for n < 64
Shl1(n) == [i \in 1..4 |-> IF i = (n \div 16) + 1 THEN 2 ^ (n % 16) ELSE 0]

\* x * m on u64 for a small m: the wrapped product and whether it overflowed
MulU64(x, m) ==
    LET t1 == x[1] * m
        t2 == x[2] * m + (t1 \div LimbBase)
        t3 == x[3] * m + (t2 \div LimbBase)
        t4 == x[4] * m + (t3 \div LimbBase)
    IN  [limbs |-> <<t1 % LimbBase, t2 % LimbBase,
                     t3 % LimbBase, t4 % LimbBase>>,
         overflow |-> (t4 \div LimbBase) # 0]

\* x.min(c) for a c below 2^16
MinU64(x, c) ==
    IF x[2] = 0 /\ x[3] = 0 /\ x[4] = 0 /\ x[1] <= c THEN x[1] ELSE c

\* (INITIAL_RECONNECT_DELAY_MS * (1u64 << reconnect_attempts))
\*     .min(MAX_RECONNECT_DELAY_MS)
\* `overflow` tells a shift by 64 or more, or a product beyond u64: a build
\* with overflow checks panics there; a build without them goes on with
\* `ms`, computed from the wrapped shift and the wrapped product.
BackoffDelay(n) ==
    LET prod == MulU64(Shl1(n % U64Bits), INITIAL_RECONNECT_DELAY_MS)
    IN  [overflow |-> n >= U64Bits \/ prod.overflow,
         ms |-> MinU64(prod.limbs, MAX_RECONNECT_DELAY_MS)]

\* reconnect_attempts.saturating_add(1); u32::MAX is beyond every bound here
SaturatingAdd(n) == n + 1

\* a connect that forgets to reset the counter
AttemptsAfterConnect_Kept == reconnect_attempts

\* reconnect_attempts = 0 after a successful connect
AttemptsAfterConnect == 0

(***************************************************************************)
(* Events, commands, directives.                                           *)
(***************************************************************************)
Connected == [type |-> "Connected", msg |-> 0, item |-> "none"]
Disconnected == [type |-> "Disconnected", msg |-> 0, item |-> "none"]
\* Event::Message(item), with the number of the frame among those forwarded
Message(m, item) == [type |-> "Message", msg |-> m, item |-> item]

Directive(method, sub, ok) ==
    [method |-> method, subscription |-> sub, ok |-> ok]

\* tx.send(event): the result is ignored; nothing is queued once the
\* receiver is gone with the Connection
Emit(q, e) == IF handle = "alive" THEN Append(q, e) ELSE q

\* a send that puts the command ahead of those already queued
SendCmd_Front(q, c) == IF pc \in {"returned", "panicked"} THEN q ELSE <<c>> \o q

\* a send that drops the command unless a session is up
SendCmd_WhenConnected(q, c) ==
    IF pc \in {"replay", "select"} THEN Append(q, c) ELSE q

\* self.tx.send((is_sub, subscription)): nothing is queued once the task
\* and its receiver are gone
SendCmd(q, c) == IF pc \in {"returned", "panicked"} THEN q ELSE Append(q, c)

ApplyCmd(set, c) == IF c[1] THEN set \cup {c[2]} ELSE set \ {c[2]}

\* an insert and a remove that always report a change
Insert_Always(set, s) == [set |-> set \cup {s}, changed |-> TRUE]
Remove_Always(set, s) == [set |-> set \ {s}, changed |-> TRUE]

\* an insert that tracks the subscription and never reports a change, so
\* that no Subscribe is sent for it
Insert_Silent(set, s) == [set |-> set \cup {s}, changed |-> FALSE]

\* a remove that reports the entry and keeps it
Remove_Kept(set, s) == [set |-> set, changed |-> s \in set]

\* HashSet::insert and HashSet::remove
Insert(set, s) == [set |-> set \cup {s}, changed |-> s \notin set]
Remove(set, s) == [set |-> set \ {s}, changed |-> s \in set]

\* a replay of nothing, and a replay of every subscription there is
ReplaySet_None == {}
ReplaySet_All == Subscription

\* what the replay iterates over
ReplaySet == subs

\* a command that is undone when its send fails
AfterFailedSend_RolledBack(before, after) == before

\* the Registry after a command whose send failed: the insert or the remove
\* came before the send and nothing undoes it
AfterFailedSend(before, after) == after

\* a Registry that is emptied when a session ends
SubsAfterBreak_Cleared(set) == {}

\* `subs` after the `break` out of the select loop: it is declared outside
\* the outer loop and nothing between the `break` and the next connect
\* attempt touches it
SubsAfterBreak(set) == set

\* an `Incoming` without a catch-all: the frame does not decode
UnknownVariant_Error == [ok |-> FALSE, item |-> "none"]

\* What a frame with an unrecognized discriminator decodes to: the Unknown
\* variant of `Incoming` (crate::hypercore::types), a catch-all.
UnknownVariant == [ok |-> TRUE, item |-> "unknown"]

\* a decoder that lets every frame through
Decode_Lenient(kind) == [ok |-> TRUE, item |-> kind]

\* serde_json::from_slice in Stream::poll_next
Decode(kind) ==
    IF kind = "malformed" THEN [ok |-> FALSE, item |-> "none"]
    ELSE IF kind = "unknown" THEN UnknownVariant
    ELSE [ok |-> TRUE, item |-> kind]

\* a match that forwards every item
Arm_ForwardAll(item) == "forward"

\* a match that takes a data message for a Pong
Arm_DataIsPong(item) == IF item = "ping" THEN "ping" ELSE "pong"

\* the arm of `match item` an item takes
Arm(item) ==
    IF item = "pong" THEN "pong"
    ELSE IF item = "ping" THEN "ping"
    ELSE "forward"

(***************************************************************************)
(* hyperevm: to_wei and from_wei.  Numbers are sequences of decimal digits, *)
(* most significant first and without leading zeros (<<>> is zero), so      *)
(* that the 96-bit mantissa of a Decimal, an i128 and a U256 keep their     *)
(* ranges.  A Decimal is a mantissa, a scale and a sign.                    *)
(***************************************************************************)
MAX_SCALE == 28

\* 2^96 - 1, the largest mantissa of a Decimal
U96_MAX ==
    <<7,9,2,2,8,1,6,2,5,1,4,2,6,4,3,3,7,5,9,3,5,4,3,9,5,0,3,3,5>>

\* 2^127 - 1, i128::MAX
I128_MAX ==
    <<1,7,0,1,4,1,1,8,3,4,6,0,4,6,9,2,3,1,7,3,
      1,6,8,7,3,0,3,7,1,5,8,8,4,1,0,5,7,2,7>>

Zeros(n) == [i \in 1..n |-> 0]

LessEq(a, b) ==
    \/ Len(a) < Len(b)
    \/ /\ Len(a) = Len(b)
       /\ \A i \in 1..Len(a) :
              (\A j \in 1..(i - 1) : a[j] = b[j]) => a[i] <= b[i]

DecimalOf(mantissa, scale, negative) ==
    [mantissa |-> mantissa, scale |-> scale, negative |-> negative]

Panic == [ok |-> FALSE, wei |-> <<>>, dec |-> DecimalOf(<<>>, 0, FALSE)]

\* the mantissa times ten, and whether that left the 96 bits
mul_by_10(bits) ==
    LET p == IF bits = <<>> THEN <<>> ELSE Append(bits, 0)
    IN  [overflow |-> ~LessEq(p, U96_MAX), bits |-> p]

div_by_10(bits) ==
    IF bits = <<>> THEN [bits |-> <<>>, remainder |-> 0]
    ELSE [bits |-> SubSeq(bits, 1, Len(bits) - 1),
          remainder |-> bits[Len(bits)]]

RECURSIVE add_one(_)
add_one(bits) ==
    IF bits = <<>> THEN <<1>>
    ELSE IF bits[Len(bits)] < 9
         THEN [bits EXCEPT ![Len(bits)] = bits[Len(bits)] + 1]
         ELSE Append(add_one(SubSeq(bits, 1, Len(bits) - 1)), 0)

\* scaling down: divide by ten diff times, then round on the last digit
\* dropped
RECURSIVE rescale_down(_, _, _)
rescale_down(bits, diff, remainder) ==
    IF diff = 0
    THEN IF remainder >= 5 THEN add_one(bits) ELSE bits
    ELSE IF bits = <<>> THEN <<>>
    ELSE LET q == div_by_10(bits)
         IN  rescale_down(q.bits, diff - 1, q.remainder)

\* scaling up: multiply by ten while the mantissa stays within 96 bits;
\* diff is what remains undone
RECURSIVE rescale_up(_, _)
rescale_up(bits, diff) ==
    IF diff = 0 THEN [bits |-> bits, diff |-> 0]
    ELSE LET m == mul_by_10(bits)
         IN  IF m.overflow THEN [bits |-> bits, diff |-> diff]
             ELSE rescale_up(m.bits, diff - 1)

rescale(size, new_scale) ==
    IF size.scale = new_scale THEN size
    ELSE IF size.mantissa = <<>>
    THEN [size EXCEPT
              !.scale = IF new_scale < MAX_SCALE THEN new_scale
                        ELSE MAX_SCALE]
    ELSE IF size.scale > new_scale
    THEN [size EXCEPT
              !.mantissa = rescale_down(size.mantissa,
                                        size.scale - new_scale, 0),
              !.scale = new_scale]
    ELSE LET r == rescale_up(size.mantissa, new_scale - size.scale)
         IN  [size EXCEPT !.mantissa = r.bits,
                          !.scale = new_scale - r.diff]

\* U256::from of an i128 panics on a negative number
to_wei(size, decimals) ==
    LET r == rescale(size, decimals)
    IN  IF r.negative /\ r.mantissa # <<>> THEN Panic
        ELSE [Panic EXCEPT !.ok = TRUE, !.wei = r.mantissa]

\* to::<i128> panics above i128::MAX; from_i128_with_scale panics on a
\* scale above MAX_SCALE and on a number outside the 96 bits
from_wei(amount, decimals) ==
    IF ~LessEq(amount, I128_MAX) THEN Panic
    ELSE IF decimals > MAX_SCALE THEN Panic
    ELSE IF ~LessEq(amount, U96_MAX) THEN Panic
    ELSE [Panic EXCEPT !.ok = TRUE,
                       !.dec = DecimalOf(amount, decimals, FALSE)]

\* the arguments the conversions are called with
Mantissas ==
    { <<>>,
      <<6,9>>,
      <<9,8,9,9,6,4,0,5>>,
      <<7,2,3,0,5,4,0,6,3,1,6,3,2,0,0,7,3,3,8,6>>,
      <<1,0,0,0,0,0,0,0,0,0,0,0>>,
      U96_MAX }

Scales == {0, 6, 18}

Sizes ==
    { DecimalOf(m, sc, FALSE) : m \in Mantissas, sc \in Scales }
        \cup { DecimalOf(<<6,9>>, 0, TRUE) }

Amounts ==
    { <<>>,
      <<9,8,9,9,6,4,0,5>>,
      <<7,2,3,0,5,4,0,6,3,1,6,3,2,0,0,7,3,3,0,0>>,
      U96_MAX,
      add_one(U96_MAX),
      I128_MAX,
      add_one(I128_MAX) }

\* the decimals of a token; from_wei is also called above MAX_SCALE
ToWeiDecimals == {0, 6, 18, MAX_SCALE}

FromWeiDecimals == ToWeiDecimals \cup {MAX_SCALE + 1}

NoCall ==
    [op |-> "none", pc |-> "idle", size |-> DecimalOf(<<>>, 0, FALSE),
     decimals |-> 0, amount |-> <<>>, out |-> Panic, back |-> Panic]

(***************************************************************************)
(* hypecli multisig: the lead of a multi-sig transfer (send_asset).        *)
(***************************************************************************)
\* the peers whose Signature messages arrive over gossip; the lead takes a
\* signature as it comes and does not look at who made it
Peers == {"peer_a", "peer_b"}

\* a loop that leaves one signature early
KeepWaiting_OneShort(len, threshold) == len + 1 < threshold

\* the condition of `while signatures.len() < multisig_config.threshold`
KeepWaiting(len, threshold) == len < threshold

\* no run of send_asset
NoLead ==
    [pc |-> "idle", threshold |-> 0, authorized |-> FALSE,
     signatures |-> <<>>, received |-> 0, neighbors |-> 0,
     interrupted |-> FALSE, submitted |-> <<>>]

(***************************************************************************)
(* The initial state: Connection::new has spawned the task.                *)
(***************************************************************************)
InitConnection ==
    /\ pc = "connecting"
    /\ subs = {}
    /\ reconnect_attempts = 0
    /\ delay_ms = 0
    /\ missed_pongs = 0
    /\ to_replay = {}
    /\ srx = <<>>
    /\ rx = <<>>
    /\ handle = "alive"
    /\ seen = <<>>
    /\ wire = <<>>
    /\ next_msg = 1
    /\ calls = <<>>
    /\ calls_in_session = FALSE
    /\ fails = 0
    /\ prev_fails = 0
    /\ ticks_no_pong = 0
    /\ sessions = 0
    /\ frames = 0
    /\ send_failed = FALSE
    /\ last_frame = "none"
    /\ hb_sent = <<>>
    /\ streams = {}
    /\ ended_by = "none"

Init ==
    /\ InitConnection
    /\ wei = NoCall
    /\ lead = NoLead

(***************************************************************************)
(* The consumer.                                                           *)
(***************************************************************************)
Call(c, maxCmds) ==
    /\ handle = "alive"
    /\ Len(calls) < maxCmds
    /\ srx' = SendCmd(srx, c)
    /\ calls' = Append(calls, c)
    /\ calls_in_session' = (calls_in_session \/ pc \in {"replay", "select"})
    /\ UNCHANGED <<pc, subs, reconnect_attempts, delay_ms, missed_pongs,
                   to_replay, rx, handle, seen, wire, next_msg, fails,
                   prev_fails, ticks_no_pong, sessions, frames, send_failed,
                   last_frame, wei, lead, hb_sent, streams,
                   ended_by>>

Subscribe(maxCmds) == \E s \in Subscription : Call(<<TRUE, s>>, maxCmds)

Unsubscribe(maxCmds) == \E s \in Subscription : Call(<<FALSE, s>>, maxCmds)

\* Connection::close, or the Connection going out of scope
Close ==
    /\ handle = "alive"
    /\ handle' = "dropped"
    /\ rx' = <<>>
    /\ UNCHANGED <<pc, subs, reconnect_attempts, delay_ms, missed_pongs,
                   to_replay, srx, seen, wire, next_msg, calls,
                   calls_in_session, fails, prev_fails, ticks_no_pong,
                   sessions, frames, send_failed,
                   last_frame, wei, lead, hb_sent, streams,
                   ended_by>>

\* a channel that hands out its newest event first
RecvEvent_Last(q) == [item |-> q[Len(q)], rest |-> SubSeq(q, 1, Len(q) - 1)]

\* what poll_recv hands out, and what stays queued
RecvEvent(q) == [item |-> Head(q), rest |-> Tail(q)]

\* <Connection as futures::Stream>::poll_next with an event ready
PollNext ==
    /\ handle = "alive"
    /\ rx # <<>>
    /\ seen' = Append(seen, RecvEvent(rx).item)
    /\ rx' = RecvEvent(rx).rest
    /\ UNCHANGED <<pc, subs, reconnect_attempts, delay_ms, missed_pongs,
                   to_replay, srx, handle, wire, next_msg, calls,
                   calls_in_session, fails, prev_fails, ticks_no_pong,
                   sessions, frames, send_failed,
                   last_frame, wei, lead, hb_sent, streams,
                   ended_by>>

(***************************************************************************)
(* The supervisor: connecting and backoff.                                 *)
(***************************************************************************)
\* a connect that tells the consumer nothing
ConnectOk_Silent(maxSessions) ==
    /\ pc = "connecting"
    /\ sessions < maxSessions
    /\ reconnect_attempts' = AttemptsAfterConnect
    /\ pc' = "replay"
    /\ to_replay' = ReplaySet
    /\ wire' = <<>>
    /\ sessions' = sessions + 1
    /\ fails' = 0
    /\ prev_fails' = fails
    /\ delay_ms' = 0
    /\ calls_in_session' = FALSE
    /\ send_failed' = FALSE
    /\ streams' = streams \cup {sessions + 1}
    /\ UNCHANGED <<subs, missed_pongs, srx, rx, handle, seen, next_msg, calls,
                   ticks_no_pong, frames, last_frame, wei, lead, hb_sent,
                   ended_by>>

\* Stream::connect returned Ok within the timeout
ConnectOk(maxSessions) ==
    /\ pc = "connecting"
    /\ sessions < maxSessions
    /\ reconnect_attempts' = AttemptsAfterConnect
    /\ rx' = Emit(rx, Connected)
    /\ pc' = "replay"
    /\ to_replay' = ReplaySet
    /\ wire' = <<>>
    /\ sessions' = sessions + 1
    /\ fails' = 0
    /\ prev_fails' = fails
    /\ delay_ms' = 0
    /\ calls_in_session' = FALSE
    /\ send_failed' = FALSE
    /\ streams' = streams \cup {sessions + 1}
    /\ UNCHANGED <<subs, missed_pongs, srx, handle, seen, next_msg, calls,
                   ticks_no_pong, frames,
                   last_frame, wei, lead, hb_sent, ended_by>>

\* a failed attempt surfaced to the consumer as a Disconnected event
Backoff_Surfaced ==
    LET d == BackoffDelay(reconnect_attempts)
    IN  /\ \/ /\ d.overflow
              /\ pc' = "panicked"
              /\ UNCHANGED <<delay_ms, reconnect_attempts, fails>>
           \/ /\ pc' = "sleeping"
              /\ delay_ms' = d.ms
              /\ reconnect_attempts' = SaturatingAdd(reconnect_attempts)
              /\ fails' = fails + 1
        /\ rx' = Emit(rx, Disconnected)
        /\ UNCHANGED <<subs, missed_pongs, to_replay, srx, handle, seen,
                       wire, next_msg, calls, calls_in_session, prev_fails,
                       ticks_no_pong, sessions, frames, send_failed,
                       last_frame, wei, lead, hb_sent, streams, ended_by>>

\* The body of the Ok(Err(err)) arm of the connect match.  Where the
\* arithmetic overflows, what happens depends on the build: the task panics
\* (overflow checks on) or goes on with the wrapped value (overflow checks
\* off).
Backoff ==
    LET d == BackoffDelay(reconnect_attempts)
    IN  /\ \/ /\ d.overflow
              /\ pc' = "panicked"
              /\ UNCHANGED <<delay_ms, reconnect_attempts, fails>>
           \/ /\ pc' = "sleeping"
              /\ delay_ms' = d.ms
              /\ reconnect_attempts' = SaturatingAdd(reconnect_attempts)
              /\ fails' = fails + 1
        /\ UNCHANGED <<subs, missed_pongs, to_replay, srx, rx, handle, seen,
                       wire, next_msg, calls, calls_in_session, prev_fails,
                       ticks_no_pong, sessions, frames, send_failed,
                   last_frame, wei, lead, hb_sent, streams,
                   ended_by>>

\* Stream::connect returned Err within the timeout
ConnectErr(maxAttempts) ==
    /\ pc = "connecting"
    /\ reconnect_attempts < maxAttempts
    /\ Backoff

\* a timeout arm that sleeps the delay and does not count the attempt
TimeoutBackoff_NotCounted ==
    LET d == BackoffDelay(reconnect_attempts)
    IN  /\ \/ /\ d.overflow
              /\ pc' = "panicked"
              /\ UNCHANGED <<delay_ms, reconnect_attempts, fails>>
           \/ /\ pc' = "sleeping"
              /\ delay_ms' = d.ms
              /\ UNCHANGED <<reconnect_attempts, fails>>
        /\ UNCHANGED <<subs, missed_pongs, to_replay, srx, rx, handle, seen,
                       wire, next_msg, calls, calls_in_session, prev_fails,
                       ticks_no_pong, sessions, frames, send_failed,
                       last_frame, wei, lead, hb_sent, streams, ended_by>>

\* The body of the Err(elapsed) arm of the connect match: the delay from
\* the counter, the counter plus one, the sleep, `continue`.
TimeoutBackoff ==
    LET d == BackoffDelay(reconnect_attempts)
    IN  /\ \/ /\ d.overflow
              /\ pc' = "panicked"
              /\ UNCHANGED <<delay_ms, reconnect_attempts, fails>>
           \/ /\ pc' = "sleeping"
              /\ delay_ms' = d.ms
              /\ reconnect_attempts' = SaturatingAdd(reconnect_attempts)
              /\ fails' = fails + 1
        /\ UNCHANGED <<subs, missed_pongs, to_replay, srx, rx, handle, seen,
                       wire, next_msg, calls, calls_in_session, prev_fails,
                       ticks_no_pong, sessions, frames, send_failed,
                       last_frame, wei, lead, hb_sent, streams, ended_by>>

\* the 10 s timeout elapsed first
ConnectTimeout(maxAttempts) ==
    /\ pc = "connecting"
    /\ reconnect_attempts < maxAttempts
    /\ TimeoutBackoff

\* A failed or timed-out attempt when the counter of the model is at its
\* bound.  The delay is computed as the code computes it; the counter of the
\* model stays at the bound, so that an outage without end is a cycle of the
\* state graph (in the code the counter goes on to u32::MAX, where
\* saturating_add holds it).
ConnectFailAtBound(maxAttempts) ==
    LET d == BackoffDelay(reconnect_attempts)
    IN  /\ pc = "connecting"
        /\ reconnect_attempts = maxAttempts
        /\ ~d.overflow
        /\ pc' = "sleeping"
        /\ delay_ms' = d.ms
        /\ UNCHANGED <<subs, reconnect_attempts, missed_pongs, to_replay, srx,
                       rx, handle, seen, wire, next_msg, calls,
                       calls_in_session, fails, prev_fails, ticks_no_pong,
                       sessions, frames, send_failed,
                   last_frame, wei, lead, hb_sent, streams,
                   ended_by>>

\* sleep(delay_ms) is over: `continue`
Wake ==
    /\ pc = "sleeping"
    /\ pc' = "connecting"
    /\ UNCHANGED <<subs, reconnect_attempts, delay_ms, missed_pongs,
                   to_replay, srx, rx, handle, seen, wire, next_msg, calls,
                   calls_in_session, fails, prev_fails, ticks_no_pong,
                   sessions, frames, send_failed,
                   last_frame, wei, lead, hb_sent, streams,
                   ended_by>>

(***************************************************************************)
(* The supervisor: replay.                                                 *)
(***************************************************************************)
\* a replay that gives up at the first failed send
AfterReplaySend_Break(ok) == IF ok THEN "replay" ELSE "connecting"

\* where the task is after stream.subscribe in the replay loop: the error
\* is only logged, the loop goes on
AfterReplaySend(ok) == "replay"

\* one iteration of `for sub in subs.iter()`
ReplayStep ==
    /\ pc = "replay"
    /\ \E s \in to_replay, ok \in BOOLEAN :
          /\ wire' = Append(wire, Directive("subscribe", s, ok))
          /\ to_replay' = to_replay \ {s}
          /\ pc' = AfterReplaySend(ok)
    /\ UNCHANGED <<subs, reconnect_attempts, delay_ms, missed_pongs, srx,
                   rx, handle, seen, next_msg, calls, calls_in_session, fails,
                   prev_fails, ticks_no_pong, sessions, frames, send_failed,
                   last_frame, wei, lead, hb_sent, streams,
                   ended_by>>

\* an end of the replay that keeps the counter of the session before
ReplayDone_CarriesOver ==
    /\ pc = "replay"
    /\ to_replay = {}
    /\ pc' = "select"
    /\ UNCHANGED <<subs, reconnect_attempts, delay_ms, missed_pongs,
                   to_replay, srx, rx, handle, seen, wire, next_msg, calls,
                   calls_in_session, fails, prev_fails, ticks_no_pong,
                   sessions, frames, send_failed, last_frame, wei, lead,
                   hb_sent,
                   streams, ended_by>>

\* the loop is over: the interval and the counter of the session are made
ReplayDone ==
    /\ pc = "replay"
    /\ to_replay = {}
    /\ pc' = "select"
    /\ missed_pongs' = 0
    /\ ticks_no_pong' = 0
    /\ UNCHANGED <<subs, reconnect_attempts, delay_ms, to_replay, srx, rx,
                   handle, seen, wire, next_msg, calls, calls_in_session,
                   fails, prev_fails, sessions, frames, send_failed,
                   last_frame, wei, lead, hb_sent, streams,
                   ended_by>>

(***************************************************************************)
(* The supervisor: the select loop of an established session.              *)
(***************************************************************************)
\* a session end that sleeps before the next connect attempt
Disconnect_Sleeps ==
    /\ pc' = "sleeping"
    /\ rx' = Emit(rx, Disconnected)
    /\ wire' = <<>>
    /\ ticks_no_pong' = 0
    /\ send_failed' = FALSE
    /\ hb_sent' = <<>>
    /\ streams' = streams \ {sessions}

\* a session end that leaves the stream of the session open
Disconnect_Leaks ==
    /\ pc' = "connecting"
    /\ rx' = Emit(rx, Disconnected)
    /\ wire' = <<>>
    /\ ticks_no_pong' = 0
    /\ send_failed' = FALSE
    /\ hb_sent' = <<>>
    /\ streams' = streams

\* `break`, then tx.send(Event::Disconnected); `stream` is dropped at the end
\* of the loop body, and the next iteration begins with the connect attempt
Disconnect ==
    /\ pc' = "connecting"
    /\ rx' = Emit(rx, Disconnected)
    /\ wire' = <<>>
    /\ ticks_no_pong' = 0
    /\ send_failed' = FALSE
    /\ hb_sent' = <<>>
    /\ streams' = streams \ {sessions}

\* ping_interval.tick()
Tick(maxTicks) ==
    /\ pc = "select"
    /\ \/ /\ missed_pongs >= MAX_MISSED_PONGS
          /\ Disconnect
          /\ ended_by' = "stale"
          /\ subs' = SubsAfterBreak(subs)
          /\ UNCHANGED missed_pongs
       \/ /\ missed_pongs < MAX_MISSED_PONGS
          /\ ticks_no_pong < maxTicks
          /\ \E ok \in BOOLEAN :
                /\ hb_sent' = <<Directive("ping", "none", ok)>>
                /\ missed_pongs' =
                      IF ok THEN missed_pongs + 1 ELSE missed_pongs
                /\ send_failed' = (send_failed \/ ~ok)
          /\ ticks_no_pong' = ticks_no_pong + 1
          /\ UNCHANGED <<pc, subs, rx, wire, streams, ended_by>>
    /\ UNCHANGED <<reconnect_attempts, delay_ms, to_replay, srx, handle,
                   seen, next_msg, calls, calls_in_session, fails, prev_fails,
                   sessions, frames,
                   last_frame, wei, lead>>

\* stream.next() yields None: end of stream or read error
RecvNone ==
    /\ pc = "select"
    /\ Disconnect
    /\ ended_by' = "closed"
    /\ subs' = SubsAfterBreak(subs)
    /\ UNCHANGED <<reconnect_attempts, delay_ms, missed_pongs, to_replay,
                   srx, handle, seen, next_msg, calls, calls_in_session,
                   fails, prev_fails, sessions, frames,
                   last_frame, wei, lead>>

\* the transport delivers one frame to stream.next()
RecvFrame(maxFrames) ==
    /\ pc = "select"
    /\ frames < maxFrames
    /\ frames' = frames + 1
    /\ \E kind \in FrameKinds :
          LET d == Decode(kind)
          IN  /\ last_frame' = kind
              /\ \/ /\ ~d.ok
                    /\ hb_sent' = <<>>
                    /\ UNCHANGED <<missed_pongs, ticks_no_pong, wire, rx,
                                   next_msg, send_failed>>
                 \/ /\ d.ok /\ Arm(d.item) = "pong"
                    /\ missed_pongs' = 0
                    /\ ticks_no_pong' = 0
                    /\ hb_sent' = <<>>
                    /\ UNCHANGED <<wire, rx, next_msg, send_failed>>
                 \/ /\ d.ok /\ Arm(d.item) = "ping"
                    /\ \E ok \in BOOLEAN :
                          /\ hb_sent' = <<Directive("pong", "none", ok)>>
                          /\ send_failed' = (send_failed \/ ~ok)
                    /\ UNCHANGED <<missed_pongs, ticks_no_pong, wire, rx,
                                   next_msg>>
                 \/ /\ d.ok /\ Arm(d.item) = "forward"
                    /\ rx' = Emit(rx, Message(next_msg, d.item))
                    /\ next_msg' = next_msg + 1
                    /\ hb_sent' = <<>>
                    /\ UNCHANGED <<missed_pongs, ticks_no_pong, wire,
                                   send_failed>>
    /\ UNCHANGED <<pc, subs, reconnect_attempts, delay_ms, to_replay, srx,
                   handle, seen, calls, calls_in_session, fails, prev_fails,
                   sessions, wei, lead, streams, ended_by>>

\* srx.recv() yields a command
RecvCmd ==
    /\ pc = "select"
    /\ srx # <<>>
    /\ srx' = Tail(srx)
    /\ LET is_sub == Head(srx)[1]
           sub == Head(srx)[2]
           r == IF is_sub THEN Insert(subs, sub) ELSE Remove(subs, sub)
       IN  IF r.changed
           THEN \E ok \in BOOLEAN :
                   IF ok
                   THEN /\ subs' = r.set
                        /\ wire' = Append(wire,
                              Directive(IF is_sub THEN "subscribe"
                                        ELSE "unsubscribe", sub, TRUE))
                        /\ UNCHANGED <<pc, rx, ticks_no_pong, send_failed,
                                       hb_sent, streams, ended_by>>
                   ELSE /\ Disconnect
                        /\ ended_by' = "send"
                        /\ subs' = SubsAfterBreak(
                                      AfterFailedSend(subs, r.set))
           ELSE /\ subs' = r.set
                /\ UNCHANGED <<pc, rx, wire, ticks_no_pong, send_failed,
                               hb_sent, streams, ended_by>>
    /\ UNCHANGED <<reconnect_attempts, delay_ms, missed_pongs, to_replay,
                   handle, seen, next_msg, calls, calls_in_session, fails,
                   prev_fails, sessions, frames,
                   last_frame, wei, lead>>

\* srx.recv() yields None: every sender is gone and the queue is empty
RecvClosed ==
    /\ pc = "select"
    /\ srx = <<>>
    /\ handle = "dropped"
    /\ pc' = "returned"
    /\ streams' = streams \ {sessions}
    /\ UNCHANGED <<subs, reconnect_attempts, delay_ms, missed_pongs,
                   to_replay, srx, rx, handle, seen, wire, next_msg, calls,
                   calls_in_session, fails, prev_fails, ticks_no_pong,
                   sessions, frames, send_failed,
                   last_frame, wei, lead, hb_sent, ended_by>>

(***************************************************************************)
(* The specifications.                                                     *)
(***************************************************************************)
Next ==
    \/ Subscribe(MaxCmds)
    \/ Unsubscribe(MaxCmds)
    \/ Close
    \/ ConnectOk(MaxSessions)
    \/ ConnectErr(MaxAttempts)
    \/ ConnectTimeout(MaxAttempts)
    \/ Wake
    \/ ReplayStep
    \/ ReplayDone
    \/ Tick(MaxTicks)
    \/ RecvNone
    \/ RecvCmd
    \/ RecvClosed

\* The supervisor with a consumer that subscribes and unsubscribes.
Spec == Init /\ [][Next]_vars

NextRegistry ==
    \/ Subscribe(RgCmds)
    \/ Unsubscribe(RgCmds)
    \/ ConnectOk(RgSessions)
    \/ ConnectErr(RgAttempts)
    \/ ConnectTimeout(RgAttempts)
    \/ Wake
    \/ ReplayStep
    \/ ReplayDone
    \/ Tick(RgTicks)
    \/ RecvNone
    \/ RecvFrame(RgFrames)
    \/ RecvCmd

\* The supervisor with calls, ticks and inbound frames together.
SpecRegistry == Init /\ [][NextRegistry]_vars

NextOrder ==
    \/ Subscribe(OrCmds)
    \/ Unsubscribe(OrCmds)
    \/ ConnectOk(OrSessions)
    \/ ReplayStep
    \/ ReplayDone
    \/ Tick(OrTicks)
    \/ RecvFrame(OrFrames)
    \/ RecvCmd

\* The supervisor with two calls in every interleaving with connects, ticks,
\* inbound frames and the ends of sessions that a failed send brings
\* about; no connect attempt fails and no stream closes.
SpecOrder == Init /\ [][NextOrder]_vars

NextEvents ==
    \/ Close
    \/ PollNext
    \/ ConnectOk(EvSessions)
    \/ ConnectErr(EvAttempts)
    \/ ConnectTimeout(EvAttempts)
    \/ Wake
    \/ ReplayDone
    \/ Tick(EvTicks)
    \/ RecvNone
    \/ RecvFrame(EvFrames)
    \/ RecvClosed

\* The supervisor with a consumer that polls the event stream and makes no
\* call: a call adds no event but the Disconnected of a failed send, and
\* RecvNone and a stale Tick end a session in the same way.
SpecEvents == Init /\ [][NextEvents]_vars

NextHeartbeat ==
    \/ Close
    \/ ConnectOk(HbSessions)
    \/ ConnectErr(HbAttempts)
    \/ ConnectTimeout(HbAttempts)
    \/ Wake
    \/ ReplayDone
    \/ Tick(HbTicks)
    \/ RecvNone
    \/ RecvFrame(HbFrames)
    \/ RecvClosed

\* The supervisor and its heartbeat, with a consumer that only waits.
SpecHeartbeat == Init /\ [][NextHeartbeat]_vars

NextBackoff ==
    \/ Close
    \/ ConnectOk(BoSessions)
    \/ ConnectErr(BoAttempts)
    \/ ConnectTimeout(BoAttempts)
    \/ Wake
    \/ ReplayDone
    \/ RecvNone
    \/ RecvClosed

\* The supervisor through long runs of failed connect attempts.
SpecBackoff == Init /\ [][NextBackoff]_vars

NextCalls ==
    \/ Subscribe(ClCmds)
    \/ Unsubscribe(ClCmds)
    \/ ConnectOk(ClSessions)
    \/ ConnectErr(ClAttempts)
    \/ ConnectTimeout(ClAttempts)
    \/ Wake
    \/ ReplayStep
    \/ ReplayDone
    \/ RecvNone
    \/ RecvCmd

\* The supervisor through every state a call can find it in.
SpecCalls == Init /\ [][NextCalls]_vars

LiveNext ==
    \/ Subscribe(LvCmds)
    \/ Unsubscribe(LvCmds)
    \/ Close
    \/ ConnectOk(LvSessions)
    \/ ConnectErr(LvAttempts)
    \/ ConnectTimeout(LvAttempts)
    \/ ConnectFailAtBound(LvAttempts)
    \/ Wake
    \/ ReplayStep
    \/ ReplayDone
    \/ Tick(LvTicks)
    \/ RecvNone
    \/ RecvCmd
    \/ RecvClosed

\* a connect attempt ends: with a stream, with an error, or with the timeout
ConnectAttemptEnds ==
    \/ ConnectOk(LvSessions)
    \/ ConnectErr(LvAttempts)
    \/ ConnectTimeout(LvAttempts)
    \/ ConnectFailAtBound(LvAttempts)

\* What the runtime and the code guarantee of the task: a connect attempt
\* ends (the timeout bounds it), a sleep ends, the replay loop runs to its
\* end, and select!, which picks at random among its ready branches, does
\* not pass over a ready srx.recv() for ever.  Nothing is assumed of the
\* transport: a connect may fail every time.
Fairness ==
    /\ WF_vars(ConnectAttemptEnds)
    /\ WF_vars(Wake)
    /\ WF_vars(ReplayStep \/ ReplayDone)
    /\ SF_vars(RecvCmd)
    /\ SF_vars(RecvClosed)

\* The supervisor under fair scheduling.
LiveSpec == Init /\ [][LiveNext]_vars /\ Fairness

(***************************************************************************)
(* The conversions of hyperevm, each called with arguments drawn from the  *)
(* sets above; the connection stays as constructed.                        *)
(***************************************************************************)
connection ==
    <<pc, subs, reconnect_attempts, delay_ms, missed_pongs, to_replay, srx,
      rx, handle, seen, wire, next_msg, calls, calls_in_session, fails,
      prev_fails, ticks_no_pong, sessions, frames, send_failed, last_frame,
      hb_sent, streams, ended_by>>

InitWei ==
    /\ InitConnection
    /\ lead = NoLead
    /\ \/ \E size \in Sizes, decimals \in ToWeiDecimals :
              wei = [NoCall EXCEPT !.op = "to_wei", !.pc = "called",
                                   !.size = size, !.decimals = decimals]
       \/ \E amount \in Amounts, decimals \in FromWeiDecimals :
              wei = [NoCall EXCEPT !.op = "from_wei", !.pc = "called",
                                   !.amount = amount,
                                   !.decimals = decimals]

\* to_wei(size, decimals)
ToWei ==
    /\ wei.op = "to_wei"
    /\ wei.pc = "called"
    /\ LET r == to_wei(wei.size, wei.decimals)
       IN  wei' = [wei EXCEPT
                       !.pc = IF r.ok THEN "returned" ELSE "panicked",
                       !.out = r]
    /\ UNCHANGED <<connection, lead>>

\* from_wei(wei, decimals)
FromWei ==
    /\ wei.op = "from_wei"
    /\ wei.pc = "called"
    /\ LET r == from_wei(wei.amount, wei.decimals)
       IN  wei' = [wei EXCEPT
                       !.pc = IF r.ok THEN "returned" ELSE "panicked",
                       !.out = r]
    /\ UNCHANGED <<connection, lead>>

\* to_wei(from_wei(w, d), d): the second call of the round trip
ToWeiBack ==
    /\ wei.op = "from_wei"
    /\ wei.pc = "returned"
    /\ LET r == to_wei(wei.out.dec, wei.decimals)
       IN  wei' = [wei EXCEPT
                       !.pc = IF r.ok THEN "back" ELSE "panicked",
                       !.back = r]
    /\ UNCHANGED <<connection, lead>>

NextWei ==
    \/ ToWei
    \/ FromWei
    \/ ToWeiBack

SpecWei == InitWei /\ [][NextWei]_vars

(***************************************************************************)
(* send_asset: the lead signs, waits for signatures, submits.              *)
(***************************************************************************)
\* send_asset has been called for a wallet with this threshold, with a
\* signer that is or is not one of its authorized users
InitLead ==
    /\ InitConnection
    /\ wei = NoCall
    /\ \E threshold \in 0..LdThreshold, authorized \in BOOLEAN :
          lead = [NoLead EXCEPT !.pc = "called", !.threshold = threshold,
                                !.authorized = authorized]

\* `let mut signatures = vec![]`, the lead's own signature if its signer is
\* an authorized user, the subscription to the topic; an error of
\* utils::sign or of gossip.subscribe returns it
LeadSign ==
    /\ lead.pc = "called"
    /\ LET own == IF lead.authorized THEN <<"own">> ELSE <<>>
       IN  \/ lead' = [lead EXCEPT !.pc = "loop", !.signatures = own]
           \/ lead' = [lead EXCEPT !.pc = "failed"]
           \/ lead' = [lead EXCEPT !.pc = "failed", !.signatures = own]
    /\ UNCHANGED <<connection, wei>>

\* the test of the while loop
LeadLoop ==
    /\ lead.pc = "loop"
    /\ lead' = [lead EXCEPT !.pc =
                   IF KeepWaiting(Len(lead.signatures), lead.threshold)
                   THEN "select" ELSE "leading"]
    /\ UNCHANGED <<connection, wei>>

\* the ctrl_c() arm: router.shutdown().await?; return Ok(())
LeadCtrlC ==
    /\ lead.pc = "select"
    /\ \E ok \in BOOLEAN :
          lead' = [lead EXCEPT !.pc = IF ok THEN "returned" ELSE "failed",
                               !.interrupted = TRUE]
    /\ UNCHANGED <<connection, wei>>

\* Event::NeighborUp: the action is broadcast to the neighbours
LeadNeighborUp(maxNeighbors) ==
    /\ lead.pc = "select"
    /\ lead.neighbors < maxNeighbors
    /\ \E ok \in BOOLEAN :
          lead' = [lead EXCEPT !.pc = IF ok THEN "loop" ELSE "failed",
                               !.neighbors = @ + 1]
    /\ UNCHANGED <<connection, wei>>

\* Event::NeighborDown, Event::Lagged, a received Message::Action
LeadIgnored ==
    /\ lead.pc = "select"
    /\ lead' = [lead EXCEPT !.pc = "loop"]
    /\ UNCHANGED <<connection, wei>>

\* a received Message::Signature(signature)
LeadSignature(maxGossip) ==
    /\ lead.pc = "select"
    /\ lead.received < maxGossip
    /\ \E p \in Peers :
          lead' = [lead EXCEPT !.pc = "loop",
                               !.signatures = Append(@, p),
                               !.received = @ + 1]
    /\ UNCHANGED <<connection, wei>>

\* a received message rmp_serde::from_slice cannot decode
LeadUndecodable ==
    /\ lead.pc = "select"
    /\ lead' = [lead EXCEPT !.pc = "failed"]
    /\ UNCHANGED <<connection, wei>>

\* topic.next() gives None or an error: panic!
LeadTopicEnds ==
    /\ lead.pc = "select"
    /\ lead' = [lead EXCEPT !.pc = "panicked"]
    /\ UNCHANGED <<connection, wei>>

\* after the loop: the MultiSigAction with the collected signatures is
\* signed by the lead and sent to the exchange, the router is shut down;
\* an error of multisig_lead_msg returns before anything is sent
LeadSubmit ==
    /\ lead.pc = "leading"
    /\ \/ lead' = [lead EXCEPT !.pc = "failed"]
       \/ \E ok \in BOOLEAN :
             lead' = [lead EXCEPT
                         !.pc = IF ok THEN "returned" ELSE "failed",
                         !.submitted = Append(@, lead.signatures)]
    /\ UNCHANGED <<connection, wei>>

NextLead ==
    \/ LeadSign
    \/ LeadLoop
    \/ LeadCtrlC
    \/ LeadNeighborUp(LdNeighbors)
    \/ LeadIgnored
    \/ LeadSignature(LdGossip)
    \/ LeadUndecodable
    \/ LeadTopicEnds
    \/ LeadSubmit

\* One run of send_asset for every threshold and both kinds of signer.
SpecLead == InitLead /\ [][NextLead]_vars

(***************************************************************************)
(* What the claims speak of.                                               *)
(***************************************************************************)
RECURSIVE Fold(_, _)
\* the calls of `cs` applied in order to `set`
Fold(set, cs) ==
    IF cs = <<>> THEN set ELSE Fold(ApplyCmd(set, Head(cs)), Tail(cs))

\* the subscriptions the consumer wants after all its calls
Desired == Fold({}, calls)

\* the subscriptions a Subscribe directive was attempted for
SubscribeSet(w) ==
    {w[i].subscription : i \in {j \in DOMAIN w : w[j].method = "subscribe"}}

\* the subscriptions whose latest directive is a Subscribe
NetActive(w) ==
    {s \in Subscription :
        \E i \in DOMAIN w :
            /\ w[i].subscription = s
            /\ w[i].method = "subscribe"
            /\ \A j \in DOMAIN w : j > i => w[j].subscription # s}

\* the session is up, every call was made before its connect succeeded, and
\* every call has been processed
Drained == pc = "select" /\ srx = <<>> /\ ~calls_in_session

\* this step takes the command `c` off the command channel
Processes(c) ==
    pc = "select" /\ srx # <<>> /\ Head(srx) = c /\ srx' = Tail(srx)

IsMessage(e) == e.type = "Message"

IsPrefix(p, q) == Len(p) <= Len(q) /\ SubSeq(q, 1, Len(p)) = p

\* the numbers of the Message events of a sequence of events, in order
MsgIds(q) == LET m == SelectSeq(q, IsMessage) IN [i \in DOMAIN m |-> m[i].msg]

(***************************************************************************)
(* The claims.                                                             *)
(***************************************************************************)

C2_ReplayOnConnect ==
    pc = "replay" =>
        /\ to_replay \subseteq subs
        /\ \A i \in DOMAIN wire : wire[i].method = "subscribe"
        /\ \A i, j \in DOMAIN wire :
              wire[i].subscription = wire[j].subscription => i = j
        /\ SubscribeSet(wire) = subs \ to_replay

C2_Witness ==
    /\ pc = "replay"
    /\ to_replay = {}
    /\ Cardinality(subs) = 2
    /\ Len(wire) = 2
    /\ \E i \in DOMAIN wire : ~wire[i].ok

\* in the directives of a session, two Subscribe for the same subscription
\* have an Unsubscribe for it between them
NoDoubleSubscribe ==
    \A i, j \in DOMAIN wire :
        (/\ i < j
         /\ wire[i].method = "subscribe"
         /\ wire[j].method = "subscribe"
         /\ wire[i].subscription = wire[j].subscription)
        => \E k \in (i + 1)..(j - 1) :
              /\ wire[k].method = "unsubscribe"
              /\ wire[k].subscription = wire[i].subscription

\* C3: processing subscribe(S) for a tracked S sends nothing and leaves the
\* Registry and the session as they are, so a session never carries two
\* Subscribe(S) without an Unsubscribe(S) between them.
C3_IdempotentSubscribe ==
    /\ []NoDoubleSubscribe
    /\ [][\A s \in Subscription :
             (Processes(<<TRUE, s>>) /\ s \in subs)
             => (wire' = wire /\ subs' = subs /\ pc' = pc /\ rx' = rx)]_vars

C3_Witness ==
    /\ pc = "select"
    /\ sessions = 1
    /\ srx = <<>>
    /\ Len(calls) = 2
    /\ calls[1] = calls[2]
    /\ calls[1][1]
    /\ Len(wire) = 1

\* C4: processing unsubscribe(S) for an untracked S sends nothing and leaves
\* the Registry and the session as they are.
C4_UnsubscribeUntracked ==
    [][\A s \in Subscription :
          (Processes(<<FALSE, s>>) /\ s \notin subs)
          => (wire' = wire /\ subs' = subs /\ pc' = pc /\ rx' = rx)]_vars

C4_Witness ==
    /\ pc = "select"
    /\ sessions = 1
    /\ srx = <<>>
    /\ Len(calls) = 1
    /\ ~calls[1][1]
    /\ wire = <<>>
    /\ subs = {}

\* C5 as stated: a session never stays up through a heartbeat tick that comes
\* after two ticks without a Pong, that is after two whole heartbeat
\* intervals without one.
C5_LivenessForcesReconnect ==
    pc = "select" => ticks_no_pong <= MAX_MISSED_PONGS

\* C6 as stated: no delay exceeds the cap, and in a run of consecutive failed
\* attempts no delay is below the one before it.
C6_BackoffMonotoneCapped ==
    /\ [](delay_ms <= MAX_RECONNECT_DELAY_MS)
    /\ [][(pc = "connecting" /\ pc' = "sleeping")
             => delay_ms' >= delay_ms]_vars

\* C7: the first failed attempt after a successful connect sleeps the initial
\* delay, however many attempts failed before that connect.
C7_BackoffReset ==
    (pc = "sleeping" /\ sessions >= 1 /\ fails = 1)
    => delay_ms = INITIAL_RECONNECT_DELAY_MS

C7_Witness ==
    /\ pc = "sleeping"
    /\ sessions >= 1
    /\ fails = 1
    /\ prev_fails >= 5

\* C8: the Message events the consumer has polled and those still queued for
\* it carry, in this order, the data frames 1, 2, 3, ... the transport
\* delivered: none is dropped, duplicated or out of order.
MessagesInOrder ==
    LET ids == MsgIds(seen \o rx)
    IN  /\ \A i \in DOMAIN ids : ids[i] = i
        /\ handle = "alive" => Len(ids) = next_msg - 1

\* C8, the order of all events: what the consumer has polled followed by
\* what is queued for it only ever grows at its end.
C8_EventOrdering ==
    /\ []MessagesInOrder
    /\ [][handle' = "alive" => IsPrefix(seen \o rx, seen' \o rx')]_vars

C8_Witness ==
    /\ MsgIds(seen) = <<1, 2, 3>>
    /\ rx = <<>>

\* C9 as stated: once the Connection is dropped, the task is eventually gone.
C9_ExitsAfterDrop == (handle = "dropped") ~> (pc \in {"returned", "panicked"})

\* C10 as stated: while the Connection is alive the task has neither returned
\* nor died, and it returns only on a closed and empty command channel.
C10_NeverStops ==
    /\ handle = "alive" => pc \notin {"returned", "panicked"}
    /\ pc = "returned" => (handle = "dropped" /\ srx = <<>>)

\* C11: a step that changes the Registry takes a command off the command
\* channel on an established session and changes the Registry by that
\* command; every other step (a connect, a failed attempt, a wake, a replay
\* step, a tick, an inbound frame, the end of a session) leaves it as it is.
C11_RegistryFrame ==
    [][subs' # subs =>
          /\ pc = "select"
          /\ srx # <<>>
          /\ srx' = Tail(srx)
          /\ subs' = ApplyCmd(subs, Head(srx))]_vars

C11_Witness ==
    /\ pc = "replay"
    /\ sessions = 2
    /\ subs # {}
    /\ to_replay = subs
    /\ frames = 1
    /\ missed_pongs = MAX_MISSED_PONGS

\* the Disconnected events of a sequence of events
Disconnects(q) == SelectSeq(q, LAMBDA e : e = Disconnected)

\* C12: a step that ends an established session without the task returning
\* emits one Disconnected event and goes straight to the next connect
\* attempt; no other step emits a Disconnected event; a backoff sleep
\* begins only at a failed connect attempt.
C12_SessionEnd ==
    /\ [][(pc \in {"replay", "select"}
           /\ pc' \notin {"replay", "select", "returned"})
          => /\ pc' = "connecting"
             /\ handle = "alive" => rx' = Append(rx, Disconnected)]_vars
    /\ [][Len(Disconnects(rx')) > Len(Disconnects(rx))
          => (pc = "select" /\ pc' = "connecting")]_vars
    /\ [][(pc' = "sleeping" /\ pc # "sleeping")
          => (pc = "connecting" /\ fails' = fails + 1)]_vars

C12_Witness ==
    /\ pc = "connecting"
    /\ handle = "alive"
    /\ sessions = 2
    /\ Len(Disconnects(rx)) = 2
    /\ missed_pongs = MAX_MISSED_PONGS
    /\ fails = 0
    /\ prev_fails = 0

\* C13 as stated: an established session does not go on after a directive
\* send outside the replay has failed on it.
C13_SendFailureEndsSession == pc \in {"replay", "select"} => ~send_failed

\* unsubscribe(s) was never called
NotUnsubscribed(s) == \A i \in DOMAIN calls : calls[i] # <<FALSE, s>>

\* subscribe(s) was called and unsubscribe(s) never was
Wanted(s) ==
    /\ \E i \in DOMAIN calls : calls[i] = <<TRUE, s>>
    /\ NotUnsubscribed(s)

\* a subscribe(s) is waiting in the command channel
Pending(s) == \E i \in DOMAIN srx : srx[i] = <<TRUE, s>>

\* once its command is processed, a wanted subscription is in the Registry,
\* and on every session, from the end of the replay on, a Subscribe for it
\* has been attempted
KeptAndResent(s) ==
    (Wanted(s) /\ ~Pending(s)) =>
        /\ s \in subs
        /\ (pc = "select" \/ (pc = "replay" /\ to_replay = {}))
           => s \in SubscribeSet(wire)

\* C14: if the Connection stays alive, unsubscribe(s) is never called and
\* sessions keep being established, a subscribe(s) waiting in the command
\* channel while no session is up leads to a Subscribe(s) attempted on a
\* session; and from then on s is in the Registry and is attempted again on
\* every later session.
C14_SubscribeNotLost ==
    \A s \in Subscription :
        /\ ([](handle = "alive" /\ NotUnsubscribed(s))
            /\ []<>(pc \in {"replay", "select"}))
           => ((Pending(s) /\ pc \in {"connecting", "sleeping"})
                  ~> (s \in SubscribeSet(wire)))
        /\ []KeptAndResent(s)

C14_Witness ==
    \E s \in Subscription :
        /\ pc = "select"
        /\ sessions = 2
        /\ calls = <<<<TRUE, s>>>>
        /\ prev_fails >= 1
        /\ wire = <<Directive("subscribe", s, TRUE)>>

\* C15: a call can be made in every state of the task; it appends its
\* command to the command channel, or does nothing when the task is gone,
\* and it changes nothing else of the task, the session or the event
\* channel.
C15_CallsNeverBlock ==
    /\ [](handle = "alive" /\ Len(calls) < ClCmds
            => \A s \in Subscription :
                  /\ ENABLED Call(<<TRUE, s>>, ClCmds)
                  /\ ENABLED Call(<<FALSE, s>>, ClCmds))
    /\ [][calls' # calls =>
            /\ Len(calls') = Len(calls) + 1
            /\ srx' = IF pc \in {"returned", "panicked"}
                      THEN srx
                      ELSE Append(srx, calls'[Len(calls')])
            /\ UNCHANGED <<pc, subs, reconnect_attempts, delay_ms,
                           missed_pongs, to_replay, rx, handle, wire,
                           send_failed>>]_vars

C15_Witness ==
    /\ pc = "panicked"
    /\ handle = "alive"
    /\ sessions = 0
    /\ Len(calls) = 1
    /\ srx = <<>>

\* the Message events of a sequence of events
Messages(q) == SelectSeq(q, IsMessage)

\* C16: the step that takes an inbound frame appends one Message event
\* carrying the decoded item when the frame decodes to something other than
\* Ping or Pong, and appends nothing otherwise; so no Message event the
\* consumer polls or has queued carries a Ping or a Pong, and the Message
\* events are as many as the frames forwarded, each once.
C16_PingPongConsumed ==
    /\ [][frames' = frames + 1 =>
            IF last_frame' \in {"ping", "pong", "malformed"}
            THEN rx' = rx
            ELSE handle = "alive" =>
                    rx' = Append(rx, Message(next_msg, last_frame'))]_vars
    /\ [](\A i \in DOMAIN Messages(seen \o rx) :
             Messages(seen \o rx)[i].item \notin {"ping", "pong", "none"})
    /\ [](handle = "alive" =>
             MsgIds(seen \o rx) = [i \in 1..(next_msg - 1) |-> i])

C16_Witness ==
    /\ handle = "alive"
    /\ frames = 3
    /\ last_frame = "ping"
    /\ rx = <<>>
    /\ Len(Messages(seen)) = 2
    /\ Messages(seen)[1].item = "data"

\* C17: the step that takes a frame that does not decode changes nothing of
\* the session, the Registry or the event channel; and the data frame taken
\* right after it is forwarded as a Message event like any other.
C17_MalformedSkipped ==
    /\ [][(frames' = frames + 1 /\ last_frame' = "malformed") =>
            UNCHANGED <<pc, rx, subs, wire, missed_pongs, next_msg,
                        send_failed>>]_vars
    /\ [][(last_frame = "malformed" /\ frames' = frames + 1
           /\ last_frame' = "data" /\ handle = "alive") =>
            rx' = Append(rx, Message(next_msg, "data"))]_vars

C17_Witness ==
    /\ pc = "select"
    /\ handle = "alive"
    /\ frames = 3
    /\ last_frame = "malformed"
    /\ rx = <<>>
    /\ Messages(seen) = <<Message(1, "data"), Message(2, "data")>>

\* C18: the step that takes a frame with an unrecognized discriminator
\* appends one Message event carrying the Unknown variant and leaves the
\* session up; and the data frame taken right after it is forwarded as a
\* Message event like any other.
C18_DecodeResilience ==
    /\ [][(frames' = frames + 1 /\ last_frame' = "unknown") =>
            /\ pc' = pc
            /\ handle = "alive" =>
                  rx' = Append(rx, Message(next_msg, "unknown"))]_vars
    /\ [][(last_frame = "unknown" /\ frames' = frames + 1
           /\ last_frame' = "data" /\ handle = "alive") =>
            rx' = Append(rx, Message(next_msg, "data"))]_vars

C18_Witness ==
    /\ pc = "select"
    /\ frames = 2
    /\ last_frame = "data"
    /\ rx = <<>>
    /\ Messages(seen) = <<Message(1, "unknown"), Message(2, "data")>>

\* a Ping, or a Pong, whose send was attempted
IsPing(d) == d.method = "ping"
IsPong(d) == d.method = "pong"

\* C21 as stated: a tick the session lives through comes with the counter
\* below MAX_MISSED_PONGS, sends one Ping and adds one to the counter; and
\* the step that ends a session sends no Ping.
C21_HeartbeatTick ==
    /\ [][ticks_no_pong' = ticks_no_pong + 1 =>
            /\ missed_pongs < MAX_MISSED_PONGS
            /\ Len(hb_sent') = 1
            /\ IsPing(hb_sent'[1])
            /\ missed_pongs' = missed_pongs + 1]_vars
    /\ [][(pc = "select" /\ pc' = "connecting") => hb_sent' = <<>>]_vars

\* What does hold of a tick: the Ping is attempted, and the counter counts
\* the tick when the send succeeded.
HeartbeatTickWhenSent ==
    /\ [][ticks_no_pong' = ticks_no_pong + 1 =>
            /\ missed_pongs < MAX_MISSED_PONGS
            /\ Len(hb_sent') = 1
            /\ IsPing(hb_sent'[1])
            /\ missed_pongs' = IF hb_sent'[1].ok THEN missed_pongs + 1
                               ELSE missed_pongs]_vars
    /\ [][(pc = "select" /\ pc' = "connecting") => hb_sent' = <<>>]_vars

C23_PingAnswered ==
    /\ [][(frames' = frames + 1 /\ last_frame' = "ping") =>
            /\ Len(hb_sent') = 1
            /\ IsPong(hb_sent'[1])
            /\ streams = {sessions}
            /\ UNCHANGED <<pc, sessions, streams, subs, missed_pongs,
                           ticks_no_pong, srx, rx, wire>>]_vars
    /\ [][(hb_sent' # hb_sent /\ \E i \in DOMAIN hb_sent' : IsPong(hb_sent'[i]))
            => (frames' = frames + 1 /\ last_frame' = "ping")]_vars

C23_Witness ==
    /\ pc = "select"
    /\ frames = 1
    /\ last_frame = "ping"
    /\ hb_sent = <<Directive("pong", "none", TRUE)>>
    /\ subs # {}
    /\ missed_pongs = 1

\* C24: a step of the replay, its send failed or not, stays in the replay,
\* takes one subscription off those still to replay, and leaves the
\* Registry, the event channel and the session as they are; and the replay
\* is left only for the select loop, with a Subscribe attempted for every
\* Registry entry.
C24_ReplayBestEffort ==
    /\ [][(pc = "replay" /\ wire' # wire) =>
            /\ pc' = "replay"
            /\ Len(wire') = Len(wire) + 1
            /\ to_replay' = to_replay \ {wire'[Len(wire')].subscription}
            /\ UNCHANGED <<subs, rx, streams, sessions>>]_vars
    /\ [][(pc = "replay" /\ pc' # "replay") =>
            /\ pc' = "select"
            /\ SubscribeSet(wire) = subs
            /\ UNCHANGED <<subs, rx, streams, wire>>]_vars

\* a replay whose first send failed has gone on to the second subscription
\* and to the select loop
C24_Witness ==
    /\ pc = "select"
    /\ sessions = 2
    /\ Len(wire) = 2
    /\ ~wire[1].ok
    /\ wire[2].method = "subscribe"
    /\ SubscribeSet(wire) = Subscription
    /\ subs = Subscription
    /\ Len(Disconnects(rx)) = 1

\* the Connected events of a sequence of events
Connects(q) == SelectSeq(q, LAMBDA e : e = Connected)

\* the event at place i of q belongs to a session: a Connected comes before
\* it with no Disconnected between the two
InSession(q, i) ==
    \E j \in 1..(i - 1) :
        /\ q[j] = Connected
        /\ \A k \in (j + 1)..(i - 1) : q[k] # Disconnected

\* C25: the step of a successful connect appends one Connected event and
\* begins the session with no directive sent; no other step adds a
\* Connected event, so the Connected events are as many as the successful
\* connects; every Message event comes after the Connected of its session;
\* and while directives have been sent on a session, its Connected event
\* is already among the events.
C25_ConnectedFirst ==
    /\ [][sessions' = sessions + 1 =>
            /\ handle = "alive" => rx' = Append(rx, Connected)
            /\ wire' = <<>>]_vars
    /\ [][Len(Connects(rx')) > Len(Connects(rx)) =>
            sessions' = sessions + 1]_vars
    /\ [](handle = "alive" => Len(Connects(seen \o rx)) = sessions)
    /\ [](\A i \in DOMAIN (seen \o rx) :
             IsMessage((seen \o rx)[i]) => InSession(seen \o rx, i))
    /\ []((handle = "alive" /\ wire # <<>>) =>
             InSession(seen \o rx, Len(seen \o rx) + 1))

\* the second session of a run: its Connected is queued after the events
\* of the first, and the replay has sent its directive after that
C25_Witness ==
    /\ pc = "select"
    /\ sessions = 2
    /\ rx = <<Connected, Message(1, "data"), Disconnected, Connected>>
    /\ Len(wire) = 1
    /\ wire[1].method = "subscribe"

\* the calls the task has taken off the command channel, in order
Processed == SubSeq(calls, 1, Len(calls) - Len(srx))

\* the latest call about s the task has processed is a subscribe
LastProcessedSubscribes(s) ==
    \E i \in DOMAIN Processed :
        /\ Processed[i] = <<TRUE, s>>
        /\ \A j \in (i + 1)..Len(Processed) : Processed[j] # <<FALSE, s>>

\* C26: processing unsubscribe(S) for a tracked S takes S out of the
\* Registry and attempts one Unsubscribe(S), after which the session either
\* goes on with that directive sent or is ended by the failed send; and a
\* subscription is in the Registry, and so among those a replay sends or is
\* about to send, only if the latest call processed for it is a subscribe.
C26_UnsubscribeTracked ==
    /\ [][\A s \in Subscription :
             (Processes(<<FALSE, s>>) /\ s \in subs) =>
                /\ subs' = subs \ {s}
                /\ \/ /\ pc' = "select"
                      /\ wire' = Append(wire,
                                        Directive("unsubscribe", s, TRUE))
                   \/ /\ pc' = "connecting"
                      /\ ended_by' = "send"]_vars
    /\ [](pc \notin {"returned", "panicked"} =>
             \A s \in subs : LastProcessedSubscribes(s))
    /\ [](pc = "replay" => (SubscribeSet(wire) \cup to_replay) \subseteq subs)

\* S was subscribed and then unsubscribed on the first session, the
\* Unsubscribe was sent, and the second session has replayed nothing
C26_Witness ==
    \E s \in Subscription :
        /\ pc = "select"
        /\ sessions = 2
        /\ ended_by = "closed"
        /\ calls = <<<<TRUE, s>>, <<FALSE, s>>>>
        /\ srx = <<>>
        /\ ~calls_in_session
        /\ wire = <<>>
        /\ subs = {}

\* C27: the step that processes a command whose send fails leaves the
\* Registry as the command makes it (S in it after a subscribe, S out of it
\* after an unsubscribe); and the replay of the next session is over the
\* Registry as that step left it.
C27_RegistryKeptOnFailedSend ==
    /\ [][\A c \in BOOLEAN \X Subscription :
             (Processes(c) /\ pc' = "connecting") =>
                /\ ended_by' = "send"
                /\ subs' = ApplyCmd(subs, c)
                /\ subs' # subs]_vars
    /\ [][(pc = "connecting" /\ pc' = "replay") =>
             (to_replay' = subs /\ subs' = subs)]_vars
    /\ [][(pc \in {"connecting", "sleeping"}) => subs' = subs]_vars

\* the Subscribe of S failed and ended the first session; S is replayed on
\* the second
C27_Witness ==
    \E s \in Subscription :
        /\ pc = "select"
        /\ sessions = 2
        /\ ended_by = "send"
        /\ calls = <<<<TRUE, s>>>>
        /\ wire = <<Directive("subscribe", s, TRUE)>>
        /\ subs = {s}

\* the Unsubscribe of S failed and ended the first session; S is not
\* replayed on the second
FailedUnsubscribeNotReplayed ==
    \E s \in Subscription :
        /\ pc = "select"
        /\ sessions = 2
        /\ ended_by = "send"
        /\ calls = <<<<TRUE, s>>, <<FALSE, s>>>>
        /\ srx = <<>>
        /\ wire = <<>>
        /\ subs = {}

\* min(500 * 2^n, 5000) on the integers
ExpectedDelay(n) ==
    IF n >= 16 \/ INITIAL_RECONNECT_DELAY_MS * (2 ^ n) > MAX_RECONNECT_DELAY_MS
    THEN MAX_RECONNECT_DELAY_MS
    ELSE INITIAL_RECONNECT_DELAY_MS * (2 ^ n)

\* C28 as stated: every failed connect attempt is followed by a sleep, and
\* the delay slept after the n-th consecutive failure (n from 0) is
\* min(500 * 2^n, 5000) ms.
C28_BackoffDelay ==
    /\ [](pc = "sleeping" => delay_ms = ExpectedDelay(fails - 1))
    /\ [][(pc = "connecting" /\ pc' \notin {"connecting", "replay"})
            => pc' = "sleeping"]_vars

\* What does hold of the delay: it is min(500 * 2^n, 5000) as long as
\* 500 * 2^n fits 64 bits, that is for n up to 55.
BackoffDelayBelowOverflow ==
    /\ [](pc = "sleeping" /\ fails <= 56 =>
              delay_ms = ExpectedDelay(fails - 1))
    /\ [][(pc = "connecting" /\ fails < 56
           /\ pc' \notin {"connecting", "replay"})
            => pc' = "sleeping"]_vars

C30_OneSession ==
    /\ [](Cardinality(streams) <= 1)
    /\ [](streams = IF pc \in {"replay", "select"} THEN {sessions} ELSE {})
    /\ [][(wire' # wire \/ hb_sent' # hb_sent
           \/ (pc = "select" /\ ended_by' = "send" /\ pc' = "connecting"))
            => streams = {sessions}]_vars
    /\ [][sessions' # sessions => (streams = {} /\ streams' = {sessions'})]_vars

\* the second session, after the first was closed: directives of both
\* kinds have been sent on it
C30_Witness ==
    /\ pc = "select"
    /\ sessions = 2
    /\ streams = {2}
    /\ wire # <<>>
    /\ hb_sent # <<>>
    /\ Len(Disconnects(rx)) = 1

\* the Connected and Disconnected events of a sequence of events, in order
Lifecycle(q) == SelectSeq(q, LAMBDA e : ~IsMessage(e))

\* Connected, Disconnected, Connected, ... : the odd places hold Connected
\* and the even places Disconnected
Alternates(q) ==
    \A i \in DOMAIN q : q[i] = IF i % 2 = 1 THEN Connected ELSE Disconnected

\* C31: in the events the consumer has polled followed by those queued for
\* it, the Connected and Disconnected events alternate and the first of them
\* is a Connected; every Message event has a Connected before it with no
\* Disconnected between the two, so it lies between a Connected and the
\* Disconnected that follows it; and a failed connect attempt (an error or
\* the timeout) adds no event and takes none away.
C31_EventsAlternate ==
    /\ [](/\ Alternates(Lifecycle(seen \o rx))
          /\ \A i \in DOMAIN (seen \o rx) :
                 IsMessage((seen \o rx)[i]) => InSession(seen \o rx, i))
    /\ [][(pc = "connecting" /\ pc' \in {"sleeping", "panicked"})
          => seen' \o rx' = seen \o rx]_vars
    /\ []((sessions = 0 /\ handle = "alive") => seen \o rx = <<>>)

\* a session with a message, its end, a failed attempt and the next
\* session: four events, none for the failed attempt
C31_Witness ==
    /\ pc = "select"
    /\ sessions = 2
    /\ prev_fails = 1
    /\ seen = <<>>
    /\ rx = <<Connected, Message(1, "data"), Disconnected, Connected>>

\* the directives of w whose send succeeded, in order
Sent(w) == SelectSeq(w, LAMBDA d : d.ok)

\* no send has failed on the current session: none of the replay, none of a
\* Ping or a Pong
NoSendFailed == ~send_failed /\ \A i \in DOMAIN wire : wire[i].ok

\* C32: while the task waits in the select loop of a session on which no
\* send has failed, the subscriptions active on the wire of that session
\* (those whose latest sent directive is a Subscribe) are exactly the
\* Registry.
C32_WireMatchesRegistry ==
    (pc = "select" /\ NoSendFailed) => NetActive(Sent(wire)) = subs

\* a second session: the replay has sent the Subscribe of the Registry entry,
\* then a call has removed the entry and the Unsubscribe has been sent
C32_Witness ==
    /\ pc = "select"
    /\ sessions = 2
    /\ NoSendFailed
    /\ \E s \in Subscription :
          wire = <<Directive("subscribe", s, TRUE),
                   Directive("unsubscribe", s, TRUE)>>
    /\ subs = {}
    /\ srx = <<>>

\* a session whose replay lost a Subscribe: the Registry holds an entry that
\* is not active on the wire
ReplayLossLeavesGap ==
    /\ pc = "select"
    /\ ~send_failed
    /\ NetActive(Sent(wire)) # subs

\* C33: the missed-pong counter is never below 0 nor above 2; the select
\* loop of every session is entered with the counter at 0, no tick of the
\* session's timer handled and no Ping sent; and a session is ended as stale
\* only after two ticks of its own since its last Pong, whatever the
\* counter was when the session before it ended.
C33_CounterPerSession ==
    /\ [](missed_pongs \in 0..MAX_MISSED_PONGS)
    /\ [][(pc # "select" /\ pc' = "select") =>
            /\ missed_pongs' = 0
            /\ ticks_no_pong' = 0
            /\ hb_sent' = <<>>]_vars
    /\ []((pc = "select") => missed_pongs <= ticks_no_pong)
    /\ [][(pc = "select" /\ pc' = "connecting" /\ ended_by' = "stale")
          => /\ missed_pongs = MAX_MISSED_PONGS
             /\ ticks_no_pong >= MAX_MISSED_PONGS]_vars

\* the session before this one was ended as stale, at a counter of 2; this
\* one has entered its select loop, no frame has ever arrived, and its
\* counter is 0
C33_Witness ==
    /\ pc = "select"
    /\ sessions = 2
    /\ ended_by = "stale"
    /\ frames = 0
    /\ missed_pongs = 0
    /\ ticks_no_pong = 0
    /\ rx = <<Connected, Disconnected, Connected>>

\* C34: the command channel holds, in call order, exactly the calls the task
\* has not processed yet, so every call is taken once and in the order it
\* was made; the Registry is the result of applying the processed calls in
\* call order to the empty set; a step that takes a command takes the oldest
\* one and applies it; and so, once the channel is empty, the Registry is
\* the result of all the calls in call order, whatever connects, ends of
\* sessions, ticks and inbound frames came in between.
C34_CommandsInOrder ==
    /\ [](/\ Len(srx) <= Len(calls)
          /\ calls = Processed \o srx
          /\ subs = Fold({}, Processed)
          /\ srx = <<>> => subs = Desired)
    /\ [][srx' # srx =>
            \/ /\ Len(calls') = Len(calls) + 1
               /\ srx' = Append(srx, calls'[Len(calls')])
               /\ subs' = subs
            \/ /\ calls' = calls
               /\ srx # <<>>
               /\ srx' = Tail(srx)
               /\ subs' = ApplyCmd(subs, Head(srx))]_vars

\* unsubscribe(s) and then subscribe(s) have both been processed, the second
\* on the second session after a frame and the end of the first session:
\* the Registry holds s, as the call order has it
C34_Witness ==
    /\ pc = "select"
    /\ sessions = 2
    /\ frames = 1
    /\ srx = <<>>
    /\ \E s \in Subscription :
          /\ calls = <<<<FALSE, s>>, <<TRUE, s>>>>
          /\ subs = {s}
          /\ wire = <<Directive("subscribe", s, TRUE)>>

\* the signatures the lead holds that came over gossip
FromGossip(sigs) == SelectSeq(sigs, LAMBDA g : g \in Peers)

\* C35: the lead submits at most once, from the end of its loop, and what it
\* submits carries the signatures it has collected, at least `threshold` of
\* them: its own first if its signer is an authorized user, and otherwise
\* only those received over gossip, one for each Signature message; the
\* Ctrl-C arm is taken only below the threshold, it ends the run, and a run
\* it has ended has submitted nothing and submits nothing afterwards.
C35_SubmitAtThreshold ==
    /\ [][lead.submitted' # lead.submitted =>
            /\ lead.pc = "leading"
            /\ lead.submitted = <<>>
            /\ lead.submitted' = <<lead.signatures>>
            /\ Len(lead.signatures) >= lead.threshold]_vars
    /\ [](\A i \in DOMAIN lead.submitted :
             Len(lead.submitted[i]) >= lead.threshold)
    /\ [](lead.pc \in {"loop", "select", "leading", "returned"} =>
             /\ lead.signatures =
                   (IF lead.authorized THEN <<"own">> ELSE <<>>)
                      \o FromGossip(lead.signatures)
             /\ Len(FromGossip(lead.signatures)) = lead.received)
    /\ [][(lead.interrupted' /\ ~lead.interrupted) =>
            /\ lead.pc = "select"
            /\ Len(lead.signatures) < lead.threshold
            /\ lead.pc' \in {"returned", "failed"}]_vars
    /\ [](lead.interrupted => lead.submitted = <<>>)
    /\ [][lead.interrupted => lead' = lead]_vars

\* a wallet with threshold 2 and a lead that is one of its users: the lead
\* has submitted its own signature and one received over gossip
C35_Witness ==
    /\ lead.pc = "returned"
    /\ lead.threshold = 2
    /\ lead.authorized
    /\ ~lead.interrupted
    /\ \E p \in Peers : lead.submitted = <<<<"own", p>>>>

\* the same wallet and lead: Ctrl-C came with one signature of two, and
\* nothing has been submitted
InterruptedBelowThreshold ==
    /\ lead.pc = "returned"
    /\ lead.threshold = 2
    /\ lead.interrupted
    /\ lead.signatures = <<"own">>
    /\ lead.submitted = <<>>

\* a wallet with threshold 2 whose lead has submitted two signatures of the
\* same peer: the lead counts signatures, not signers
SamePeerTwice ==
    /\ lead.threshold = 2
    /\ ~lead.authorized
    /\ lead.submitted = <<<<"peer_a", "peer_a">>>>

(***************************************************************************)
(* to_wei and from_wei                                                     *)
(***************************************************************************)
RECURSIVE TrailingZeros(_)
TrailingZeros(bits) ==
    IF bits = <<>> \/ bits[Len(bits)] # 0 THEN 0
    ELSE 1 + TrailingZeros(SubSeq(bits, 1, Len(bits) - 1))

\* the number of fractional digits of a Decimal, trailing zeros aside
FractionalDigits(size) ==
    IF size.mantissa = <<>>
       \/ TrailingZeros(size.mantissa) >= size.scale THEN 0
    ELSE size.scale - TrailingZeros(size.mantissa)

\* the integer size * 10^decimals, for a size of at most `decimals`
\* fractional digits
TimesPow10(size, decimals) ==
    IF size.mantissa = <<>> THEN <<>>
    ELSE IF size.scale <= decimals
    THEN size.mantissa \o Zeros(decimals - size.scale)
    ELSE SubSeq(size.mantissa, 1,
                Len(size.mantissa) - (size.scale - decimals))

\* to_wei was called with a non-negative size of at most `decimals`
\* fractional digits, and the call is over
ToWeiCalled ==
    /\ wei.op = "to_wei"
    /\ wei.pc # "called"
    /\ ~wei.size.negative
    /\ FractionalDigits(wei.size) <= wei.decimals

\* C19: to_wei(size, decimals) returns the integer size * 10^decimals for
\* every non-negative size of at most `decimals` fractional digits,
\* whatever the magnitude of size.
C19_ToWeiExact ==
    ToWeiCalled =>
        /\ wei.pc = "returned"
        /\ wei.out.wei = TimesPow10(wei.size, wei.decimals)

\* What does hold of to_wei: the result is exact whenever size * 10^decimals
\* fits the 96 bits of a Decimal's mantissa.
ToWeiExactWithin96 ==
    (ToWeiCalled /\ LessEq(TimesPow10(wei.size, wei.decimals), U96_MAX)) =>
        /\ wei.pc = "returned"
        /\ wei.out.wei = TimesPow10(wei.size, wei.decimals)

\* the examples of test_to_wei come out as the test expects
ToWeiExamples ==
    /\ to_wei(DecimalOf(<<9,8,9,9,6,4,0,5>>, 6, FALSE), 6).wei
           = <<9,8,9,9,6,4,0,5>>
    /\ to_wei(DecimalOf(<<6,9>>, 0, FALSE), 6).wei = <<6,9,0,0,0,0,0,0>>
    /\ to_wei(DecimalOf(<<7,2,3,0,5,4,0,6,3,1,6,3,2,0,0,7,3,3,8,6>>,
                        18, FALSE), 18).wei
           = <<7,2,3,0,5,4,0,6,3,1,6,3,2,0,0,7,3,3,8,6>>

\* C20: from_wei(wei, decimals) returns exactly wei / 10^decimals, and
\* to_wei(from_wei(w, d), d) = w, for every wei amount w and every
\* decimals d.
C20_FromWeiInverse ==
    (wei.op = "from_wei" /\ wei.pc # "called") =>
        /\ wei.pc # "panicked"
        /\ wei.out.dec = DecimalOf(wei.amount, wei.decimals, FALSE)
        /\ wei.pc = "back" => wei.back.wei = wei.amount

\* What does hold of from_wei: it is exact, and to_wei is its inverse, for
\* an amount within 96 bits and decimals of at most MAX_SCALE.
FromWeiInverseWithin96 ==
    (/\ wei.op = "from_wei"
     /\ wei.pc # "called"
     /\ LessEq(wei.amount, U96_MAX)
     /\ wei.decimals <= MAX_SCALE) =>
        /\ wei.pc # "panicked"
        /\ wei.out.dec = DecimalOf(wei.amount, wei.decimals, FALSE)
        /\ wei.pc = "back" => wei.back.wei = wei.amount

\* a round trip that did come back
FromWeiBack ==
    /\ wei.op = "from_wei"
    /\ wei.pc = "back"
    /\ wei.amount = <<9,8,9,9,6,4,0,5>>
    /\ wei.decimals = 6

====
